---- MODULE Spec2Model ----
(***************************************************************************)
(* Workspace state of the PDF tools suite: the container component        *)
(* (PDFContainer: files, currentFile, fileRanges) together with the       *)
(* PDFTools panel it renders (ranges, selectedFile, selectedRangeId).     *)
(*                                                                         *)
(* File objects live in a heap because the code identifies a document by  *)
(* object identity (f === file) and assigns id / totalPages in place with *)
(* Object.assign.  A reference is an index into the heap, 0 is null.      *)
(*                                                                         *)
(* One action is one event handler (or one resumption of an async         *)
(* handler after its await) followed by the re-render and the PDFTools    *)
(* effect that the re-render triggers.                                    *)
(***************************************************************************)
EXTENDS Integers, Sequences, FiniteSets, TLC

\* ---------------------------------------------------------------- bounds
MaxObjs == 3        \* File objects created in one run
MaxNames == 1       \* distinct base names a user supplies
MaxSizes == 2       \* distinct byte sizes
MaxPages == 2       \* page count of a supplied file that parses
MaxRanges == 1      \* rows in the range editor
MaxTyped == 1       \* largest number typed into a range field
MaxPending == 2     \* async handlers in flight at once
MaxRows == 3        \* rows in the range editor (range editor specification)
MaxEditorTyped == 3 \* largest number typed (range editor specification)
MaxTextLen == 2   \* characters typed into a field (validation specification)
\* File objects in a run of merges: two sources and two merged files
MaxMergeObjs == 4
\* under the container that keeps pageCount: File objects, rows per editor
MaxCountObjs == 4
MaxCountRows == 2
\* files the container passes to the preview, object URLs created in a run
MaxPreviewFiles == 2
MaxUrls == 3
\* the auto-correcting range editor: pages of the document, largest number
\* typed, rows
MaxAutoPages == 3
MaxAutoTyped == 4
MaxAutoRows == 2

\* ------------------------------------------------------------- encodings
NoFile == 0                 \* null reference
NoId == 0                   \* file.id of a plain File (undefined)
Undef == 0 - 1              \* file.totalPages of a plain File (undefined)
NoRange == 0                \* selectedRangeId = null
MergedBase == 0             \* base name of "merged.pdf"
NoUrl == 0                  \* fileUrl = null
NoJump == 0 - 1             \* no jumpToPage call

VARIABLES
    heap,             \* File objects: name, size, pages, id, totalPages
    files,            \* PDFContainer state `files' (sequence of references)
    currentFile,      \* PDFContainer state `currentFile'
    fileRanges,       \* PDFContainer state `fileRanges' (id -> range)
    ranges,           \* PDFTools state `ranges'
    selectedFile,     \* PDFTools state `selectedFile'
    selectedRangeId,  \* PDFTools state `selectedRangeId'
    isLoadingUrl,     \* PDFTools state `isLoadingUrl'
    pageCount,        \* the `pageCount' prop that PDFTools receives
    pending,          \* async handlers suspended at an await
    ev,               \* the handler that ran last, with its arguments
    previewFile,      \* PreviewWindow prop `file'
    selectedRange,    \* PreviewWindow prop `selectedRange'
    fileUrl,          \* PreviewWindow state `fileUrl'
    loading,          \* PreviewWindow state `loading'
    currentPage,      \* PreviewWindow state `currentPage'
    mounted,          \* the PreviewWindow is mounted
    cleanup,          \* the url closed over by the effect's cleanup
    revoked,          \* object URLs created so far -> times revoked
    viewerPage,       \* index of the page the Viewer shows
    jump,             \* argument of the jumpToPage call of the last step
    rendered          \* the renderPage call of the last step

workspaceVars == <<heap, files, currentFile, fileRanges, ranges, selectedFile,
                   selectedRangeId, isLoadingUrl, pageCount, pending>>
previewVars == <<previewFile, selectedRange, fileUrl, loading, currentPage,
                 mounted, cleanup, revoked, viewerPage, jump, rendered>>
vars == <<workspaceVars, ev, previewVars>>

\* ------------------------------------------------------------ sequences
Range(s) == {s[i] : i \in DOMAIN s}

RECURSIVE Filter(_, _)
\* Array.prototype.filter((f) => f !== x)
Filter(s, x) ==
    IF s = <<>> THEN <<>>
    ELSE IF Head(s) = x THEN Filter(Tail(s), x)
         ELSE <<Head(s)>> \o Filter(Tail(s), x)

\* Array.prototype.findIndex((f) => f === x), 0-based, -1 when absent
FindIndex(s, x) ==
    IF x \in Range(s)
    THEN (CHOOSE i \in DOMAIN s : s[i] = x /\ \A j \in 1..(i - 1) : s[j] # x) - 1
    ELSE 0 - 1

\* s without its i-th element (1-based): filter((_, k) => k !== index)
RemoveAt(s, i) == [k \in 1..(Len(s) - 1) |-> IF k < i THEN s[k] ELSE s[k + 1]]

\* --------------------------------------------------------------- names
PlainName(b) == [base |-> b, suffix |-> <<>>]
\* `${name.replace(".pdf", "")}_pages_${start + 1}-${end + 1}.pdf`
PagesName(n, s, e) == [base |-> n.base, suffix |-> Append(n.suffix, <<s, e>>)]
MergedName == PlainName(MergedBase)

\* ----------------------------------------------------- text and parseInt
Digits == <<"0", "1", "2", "3", "4", "5", "6", "7", "8", "9">>
IsDigit(c) == \E d \in DOMAIN Digits : Digits[d] = c
DigitVal(c) == (CHOOSE d \in DOMAIN Digits : Digits[d] = c) - 1

RECURSIVE ParseDigits(_, _, _)
\* the longest run of leading digits of t, accumulated in base 10
ParseDigits(t, acc, seen) ==
    IF t # <<>> /\ IsDigit(Head(t))
    THEN ParseDigits(Tail(t), 10 * acc + DigitVal(Head(t)), TRUE)
    ELSE [nan |-> ~seen, val |-> acc]

\* parseInt(t): optional sign, leading digits, NaN when there is none
ParseInt(t) ==
    IF t # <<>> /\ Head(t) = "-"
    THEN LET p == ParseDigits(Tail(t), 0, FALSE)
         IN [nan |-> p.nan, val |-> 0 - p.val]
    ELSE ParseDigits(t, 0, FALSE)

\* Number.prototype.toString for the non-negative numbers below 10
ToText(n) == <<Digits[n + 1]>>

\* texts a user types into a range field
TextInputs == {<<>>} \cup {ToText(n) : n \in 1..MaxTyped}
EditorInputs == {<<>>} \cup {ToText(n) : n \in 1..MaxEditorTyped}
CountInputs == {ToText(n) : n \in 1..MaxPages}

\* texts typed into a field of the auto-correcting editor
AutoInputs == {<<>>, <<"0">>, <<"-", "2">>, <<".">>}
              \cup {ToText(n) : n \in 1..MaxAutoTyped}

\* what a number input hands over: digits, a sign, a decimal point
ValidateChars == {"0", "2", "3", "5", "8", "-", "."}
ValidateTexts == UNION {[1..n -> ValidateChars] : n \in 0..MaxTextLen}
\* page counts of the documents ranges are validated against
ValidatePages == {0, 3, 10}

\* a <= b in JavaScript when b may be undefined (the comparison is then false)
LeqJS(a, b) == b # Undef /\ a <= b
GtJS(a, b) == b # Undef /\ a > b

\* ------------------------------------------------------------ the heap
\* a File as the browser hands it over: no id, no totalPages yet
\* its content is pg pages, each told apart by the file it was made in and
\* its number there
NewFile(n, sz, pg) ==
    [name |-> n, size |-> sz,
     pages |-> [k \in 1..pg |-> [base |-> n.base, size |-> sz, no |-> k]],
     id |-> NoId, totalPages |-> Undef]

\* calculatePageCount: the engine's count, 0 when the bytes do not parse
\* (a file that does not parse is one whose content has no pages)
calculatePageCount(h, f) == Len(h[f].pages)

\* uuidv4() at the k-th assignment of an id to object f: the values carry
\* no meaning beyond being different from every id handed out elsewhere
uuidv4(f, k) == 2 * (f - 1) + k

\* Object.assign(file, {id: uuidv4(), totalPages: pageCount})
AssignId(h, f, k) ==
    [h EXCEPT ![f].id = uuidv4(f, k),
              ![f].totalPages = calculatePageCount(h, f)]

\* ------------------------------------------------------- the range map
NullRange == [start |-> 0, end |-> 0]       \* the argument null of onRangeChange

Put(fr, k, r) == [x \in DOMAIN fr \cup {k} |-> IF x = k THEN r ELSE fr[x]]
Remove(fr, k) == [x \in DOMAIN fr \ {k} |-> fr[x]]

\* the inline onRangeChange the container passes to PDFTools
onRangeChange(cf, h, fr, r) ==
    IF cf = NoFile THEN fr
    ELSE IF r # NullRange THEN Put(fr, h[cf].id, r)
         ELSE Remove(fr, h[cf].id)

\* selectPDF(file): setCurrentFile, and seed the default range when the
\* fileRanges of the calling render (closure) has no entry for file.id
selectPDF(file, h, closureKeys, fr) ==
    [cur |-> file,
     fr  |-> IF file # NoFile /\ h[file].id \notin closureKeys
             THEN Put(fr, h[file].id, [start |-> 1, end |-> h[file].totalPages])
             ELSE fr]

\* a comparison of the names alone
IsDuplicateByName(h, fs, f) ==
    \E g \in Range(fs) : h[g].name = h[f].name

\* setFiles((prev) => prev.some(same name and size) ? prev : [...prev, file])
IsDuplicate(h, fs, f) ==
    \E g \in Range(fs) : h[g].name = h[f].name /\ h[g].size = h[f].size

AppendUnique(h, fs, f) == IF IsDuplicate(h, fs, f) THEN fs ELSE Append(fs, f)

\* ------------------------------------------------------ PDFTools panel
\* a row of the range editor; `clicked' is history, not state of the code:
\* it marks the row the user clicked last (handleRangeSelect)
Row(i, s, e) == [id |-> i, start |-> s, end |-> e, clicked |-> FALSE]

BlankRanges == <<Row(1, <<>>, <<>>)>>

\* the pageCount prop PDFTools validates against, under the container that
\* keeps ids and fileRanges: that container passes none; it is taken as the
\* active document's totalPages, the count the range rules are stated
\* against
pageCountProp(h, cf) == IF cf = NoFile THEN 0 ELSE h[cf].totalPages

\* the selectedRange prop the container hands to PreviewWindow:
\*   currentFile ? fileRanges[currentFile.id] || null : null
selectedRangeProp(h, cf, fr) ==
    IF cf = NoFile THEN NullRange
    ELSE IF h[cf].id \in DOMAIN fr THEN fr[h[cf].id]
    ELSE NullRange

\* the messages of getRangeError; `n' is the page count the text quotes
Message(t, n) == [text |-> t, n |-> n]
NoMessage == Message("", 0)

\* a validity test without the lower bound
isRangeValidNoLowerBound(r, pc) ==
    LET s == ParseInt(r.start)
        e == ParseInt(r.end)
    IN  /\ ~s.nan /\ ~e.nan
        /\ LeqJS(e.val, pc)
        /\ s.val <= e.val

\* isRangeValid(range)
isRangeValid(r, pc) ==
    LET s == ParseInt(r.start)
        e == ParseInt(r.end)
    IN  /\ ~s.nan /\ ~e.nan
        /\ s.val > 0
        /\ LeqJS(e.val, pc)
        /\ s.val <= e.val

\* a description without the test against the page count
getRangeErrorNoUpperBound(r, pc) ==
    LET s == ParseInt(r.start)
        e == ParseInt(r.end)
    IN  IF s.nan \/ e.nan THEN Message("Please enter valid numbers", 0)
        ELSE IF s.val <= 0 \/ e.val <= 0
        THEN Message("Page numbers must be greater than 0", 0)
        ELSE IF s.val > e.val
        THEN Message("Start page must not be greater than end page", 0)
        ELSE NoMessage

\* an order of the tests that puts the inverted bounds first
getRangeErrorInvertedFirst(r, pc) ==
    LET s == ParseInt(r.start)
        e == ParseInt(r.end)
    IN  IF s.nan \/ e.nan THEN Message("Please enter valid numbers", 0)
        ELSE IF s.val > e.val
        THEN Message("Start page must not be greater than end page", 0)
        ELSE IF s.val <= 0 \/ e.val <= 0
        THEN Message("Page numbers must be greater than 0", 0)
        ELSE IF GtJS(s.val, pc) \/ GtJS(e.val, pc)
        THEN Message("Page numbers must not exceed", pc)
        ELSE NoMessage

\* getRangeError(range)
getRangeError(r, pc) ==
    LET s == ParseInt(r.start)
        e == ParseInt(r.end)
    IN  IF s.nan \/ e.nan THEN Message("Please enter valid numbers", 0)
        ELSE IF s.val <= 0 \/ e.val <= 0
        THEN Message("Page numbers must be greater than 0", 0)
        ELSE IF GtJS(s.val, pc) \/ GtJS(e.val, pc)
        THEN Message("Page numbers must not exceed", pc)
        ELSE IF s.val > e.val
        THEN Message("Start page must not be greater than end page", 0)
        ELSE NoMessage

\* what handleRangeChange / handleRangeSelect hand to onRangeChange
PreviewOf(r, pc) ==
    IF isRangeValid(r, pc)
    THEN [start |-> ParseInt(r.start).val, end |-> ParseInt(r.end).val]
    ELSE NullRange

\* the range editor is rendered inside the list row of the active document
EditorShown == currentFile # NoFile /\ currentFile \in Range(files)

\* The re-render after a handler, with the PDFTools effect
\*   if (currentFile !== selectedFile) { setSelectedFile(currentFile);
\*     setRanges(blank); setSelectedRangeId(null); onRangeChange(null) }
Effect(h, cf, fr, sf, rs, srid) ==
    IF cf # sf
    THEN /\ selectedFile' = cf
         /\ ranges' = BlankRanges
         /\ selectedRangeId' = NoRange
         /\ fileRanges' = onRangeChange(cf, h, fr, NullRange)
    ELSE /\ selectedFile' = sf
         /\ ranges' = rs
         /\ selectedRangeId' = srid
         /\ fileRanges' = fr

Render(h, cf, fr, sf, rs, srid) ==
    /\ pageCount' = pageCountProp(h, cf)
    /\ Effect(h, cf, fr, sf, rs, srid)

\* ------------------------------------------------------- async handlers
\* a handler suspended at an await: its kind, the file it works on, the
\* arguments and the values of the render it closed over
Task(k, o, c, b, sn, ks, vr) ==
    [kind |-> k, obj |-> o, cur |-> c, batch |-> b, snap |-> sn, keys |-> ks,
     valid |-> vr]

\* File objects a suspended handler will still create
Reserve(t) ==
    CASE t.kind = "extract" -> Len(t.valid)
      [] t.kind = "merge"   -> 1
      [] t.kind = "url"     -> 1
      [] OTHER              -> 0

RECURSIVE SumReserve(_)
SumReserve(ts) ==
    IF ts = {} THEN 0
    ELSE LET t == CHOOSE x \in ts : TRUE
         IN Reserve(t) + SumReserve(ts \ {t})

\* the handler invocations in flight (the continuations of one invocation
\* carry the same batch number)
Batches == {t.batch : t \in pending}
FreeBatch == CHOOSE b \in 1..MaxPending : b \notin Batches

\* the run stays within MaxObjs objects and MaxPending handlers in flight
RoomIn(n, max) ==
    /\ Len(heap) + SumReserve(pending) + n <= max
    /\ Cardinality(Batches) < MaxPending
Room(n) == RoomIn(n, MaxObjs)

\* what a suspended handler's selectPDF can still ask of the fileRanges it
\* closed over: a uuid handed out later is in no earlier fileRanges, so only
\* the key of the files without id is kept
ClosureKeys == DOMAIN fileRanges \cap {NoId}

\* A File object that no state of the components refers to any more is
\* reclaimed; its fields can no longer be read, so they are reset
Reclaimed == NewFile(PlainName(MergedBase), 0, 0)

Refs(t) == {t.obj} \cup Range(t.snap)

Collect(h) ==
    LET live == Range(files') \cup {currentFile', ev'.obj}
                \cup UNION {Refs(t) : t \in pending'}
    IN  [f \in DOMAIN h |-> IF f \in live THEN h[f] ELSE Reclaimed]

\* the handler that ran last: its argument, the argument's index in `files'
\* and whether it was the current file, all taken when the handler started,
\* and the titles of the toasts it raised, in order
Event(o, f) ==
    [op |-> o, obj |-> f, at |-> FindIndex(files, f),
     wasCurrent |-> (f = currentFile), toasts |-> <<>>]
Quiet == [op |-> "none", obj |-> NoFile, at |-> 0 - 1, wasCurrent |-> FALSE,
          toasts |-> <<>>]

\* toast({title, ...}) for each title of ts
Toast(e, ts) == [e EXCEPT !.toasts = ts]

\* PreviewWindow as mounted without a file: useState(null), useState(false),
\* useState(0); no object URL has been created
NoRender == [pageIndex |-> 0 - 1, inWindow |-> FALSE, start |-> 0, end |-> 0,
             content |-> {}, range |-> <<0, 0>>]
InitPreview ==
    /\ previewFile = NoFile
    /\ selectedRange = NullRange
    /\ fileUrl = NoUrl
    /\ loading = FALSE
    /\ currentPage = 0
    /\ mounted = TRUE
    /\ cleanup = NoUrl
    /\ revoked = <<>>
    /\ viewerPage = 0
    /\ jump = NoJump
    /\ rendered = NoRender

Init ==
    /\ heap = <<>>
    /\ files = <<>>
    /\ currentFile = NoFile
    /\ fileRanges = <<>>
    /\ ranges = BlankRanges
    /\ selectedFile = NoFile
    /\ selectedRangeId = NoRange
    /\ isLoadingUrl = FALSE
    /\ pageCount = pageCountProp(heap, currentFile)
    /\ pending = {}
    /\ InitPreview
    /\ ev = Quiet

\* ------------------------------------------------- container: uploads
\* the files of a picker selection: pdf is file.type === "application/pdf";
\* a file either does not parse (0 pages) or has MaxPages pages
NotPdf == [pdf |-> FALSE, base |-> 1, size |-> 1, pages |-> 0]
Picked == {NotPdf} \cup
          [pdf : {TRUE}, base : 1..MaxNames, size : 1..MaxSizes,
           pages : {0, MaxPages}]

\* handleFileUpload with the files <<a, b>> (one file when b is NotPdf and
\* left out): addFile(a, true) and addFile(b, false), each up to its await;
\* a file that is not a PDF is turned away at once.  handleFileUpload is
\* memoized on [toast], so its addFile closes over the first render, whose
\* fileRanges is empty
HandleFileUpload(a, b) ==
    LET n  == (IF a.pdf THEN 1 ELSE 0) + (IF b.pdf THEN 1 ELSE 0)
        oa == Len(heap) + 1
        ob == IF a.pdf THEN Len(heap) + 2 ELSE Len(heap) + 1
        ha == IF a.pdf
              THEN Append(heap, NewFile(PlainName(a.base), a.size, a.pages))
              ELSE heap
        hb == IF b.pdf
              THEN Append(ha, NewFile(PlainName(b.base), b.size, b.pages))
              ELSE ha
        k  == FreeBatch
    IN  /\ n > 0
        /\ Room(n)
        /\ pending' = pending
              \cup (IF a.pdf THEN {Task("add", oa, TRUE, k, <<>>, {}, <<>>)}
                    ELSE {})
              \cup (IF b.pdf THEN {Task("add", ob, FALSE, k, <<>>, {}, <<>>)}
                    ELSE {})
        /\ ev' = Toast(Quiet, IF a.pdf THEN <<>> ELSE <<"Invalid file">>)
        /\ UNCHANGED <<files, currentFile, fileRanges, ranges,
                       selectedFile, selectedRangeId, isLoadingUrl>>
        /\ UNCHANGED pageCount
        /\ UNCHANGED previewVars
        /\ heap' = Collect(hb)

\* addFile after `await calculatePageCount(file)': assign id and page
\* count, append unless a file of that name and size is there, select.
\* The caller goes on when addFile returns: handleMerge raises its toast,
\* handleFileUpload raises its own when the last addFile of the upload has
\* returned
AddFileResume(t) ==
    LET f   == t.obj
        h   == AssignId(heap, f, IF heap[f].id = NoId THEN 1 ELSE 2)
        sel == IF t.cur THEN selectPDF(f, h, t.keys, fileRanges)
               ELSE [cur |-> currentFile, fr |-> fileRanges]
        last == ~\E u \in pending \ {t} : u.kind = "add" /\ u.batch = t.batch
        ts  == IF t.kind = "madd" THEN <<"PDFs merged">>
               ELSE IF last THEN <<"Files added">> ELSE <<>>
    IN  /\ t.kind \in {"add", "madd"}
        /\ files' = AppendUnique(h, files, f)
        /\ currentFile' = sel.cur
        /\ Render(h, sel.cur, sel.fr, selectedFile, ranges, selectedRangeId)
        /\ pending' = pending \ {t}
        /\ ev' = Toast(Event("addFile", f), ts)
        /\ UNCHANGED isLoadingUrl
        /\ UNCHANGED previewVars
        /\ heap' = Collect(h)

\* ---------------------------------------------- container: select, delete
\* PDFTools.handleFileSelect(file): setSelectedFile(file); onFileSelect(file)
HandleFileSelect(i) ==
    LET f   == files[i]
        sel == selectPDF(f, heap, DOMAIN fileRanges, fileRanges)
    IN  /\ currentFile' = sel.cur
        /\ Render(heap, sel.cur, sel.fr, f, ranges, selectedRangeId)
        /\ ev' = Event("select", f)
        /\ UNCHANGED <<files, isLoadingUrl, pending>>
        /\ UNCHANGED previewVars
        /\ heap' = Collect(heap)

\* a reselection that indexes the remaining files with the old index
NextAfterDeleteSameIndex(fs, file) ==
    LET currentIndex == FindIndex(fs, file)
        newFiles == Filter(fs, file)
    IN  IF Len(newFiles) > 0
        THEN IF currentIndex > 0 /\ currentIndex < Len(newFiles)
             THEN newFiles[currentIndex + 1]
             ELSE newFiles[1]
        ELSE NoFile

\* the file handleDelete selects next
NextAfterDelete(fs, file) ==
    LET currentIndex == FindIndex(fs, file)
        newFiles == Filter(fs, file)
    IN  IF Len(newFiles) > 0
        THEN IF currentIndex > 0 THEN newFiles[currentIndex]
             ELSE newFiles[1]
        ELSE NoFile

\* handleDelete(file)
HandleDelete(file) ==
    LET nextFile == NextAfterDelete(files, file)
        fr1 == Remove(fileRanges, heap[file].id)
        sel == selectPDF(nextFile, heap, DOMAIN fileRanges, fr1)
    IN  /\ files' = Filter(files, file)
        /\ currentFile' = sel.cur
        /\ Render(heap, sel.cur, sel.fr, selectedFile, ranges, selectedRangeId)
        /\ ev' = Toast(Event("delete", file), <<"PDF deleted">>)
        /\ UNCHANGED <<isLoadingUrl, pending>>
        /\ UNCHANGED previewVars
        /\ heap' = Collect(heap)

\* the trash button of row i
ClickDelete(i) == HandleDelete(files[i])

\* Cmd/Ctrl + D
KeyDelete ==
    /\ currentFile # NoFile
    /\ HandleDelete(currentFile)

\* a navigation that stops at the ends of the list
keyTargetNoWrap(fs, cf, up) ==
    LET currentIndex == IF cf # NoFile THEN FindIndex(fs, cf) ELSE 0 - 1
        newIndex == IF up
                    THEN IF currentIndex <= 0 THEN 0 ELSE currentIndex - 1
                    ELSE IF currentIndex >= Len(fs) - 1 THEN Len(fs) - 1
                         ELSE currentIndex + 1
    IN  fs[newIndex + 1]

\* handleKeyNavigation: the file files[newIndex] an arrow key selects
keyTarget(fs, cf, up) ==
    LET currentIndex == IF cf # NoFile THEN FindIndex(fs, cf) ELSE 0 - 1
        newIndex == IF up
                    THEN IF currentIndex <= 0 THEN Len(fs) - 1
                         ELSE currentIndex - 1
                    ELSE IF currentIndex >= Len(fs) - 1 THEN 0
                         ELSE currentIndex + 1
    IN  fs[newIndex + 1]

\* Cmd/Ctrl + ArrowUp / ArrowDown
HandleKeyNavigation(up) ==
    LET newFile == keyTarget(files, currentFile, up)
        sel == selectPDF(newFile, heap, DOMAIN fileRanges, fileRanges)
    IN  /\ Len(files) # 0
        /\ currentFile' = sel.cur
        /\ Render(heap, sel.cur, sel.fr, selectedFile, ranges, selectedRangeId)
        /\ ev' = Toast(Event("keyNav", newFile), <<"PDF Changed">>)
        /\ UNCHANGED <<files, isLoadingUrl, pending>>
        /\ UNCHANGED previewVars
        /\ heap' = Collect(heap)

\* ----------------------------------------------- PDFTools: range editor
\* handleAddRange: the new id is (ranges.length + 1).toString()
HandleAddRange ==
    /\ EditorShown
    /\ ranges' = Append(ranges, Row(Len(ranges) + 1, <<>>, <<>>))
    /\ ev' = Quiet
    /\ UNCHANGED <<files, currentFile, fileRanges, selectedFile,
                   selectedRangeId, isLoadingUrl, pending>>
    /\ UNCHANGED pageCount
    /\ UNCHANGED previewVars
    /\ heap' = Collect(heap)

\* handleRemoveRange(index)
HandleRemoveRange(i) ==
    LET hit == selectedRangeId = ranges[i].id
    IN  /\ EditorShown
        /\ ranges' = RemoveAt(ranges, i)
        /\ selectedRangeId' = IF hit THEN NoRange ELSE selectedRangeId
        /\ fileRanges' = IF hit
                         THEN onRangeChange(currentFile, heap, fileRanges,
                                            NullRange)
                         ELSE fileRanges
        /\ ev' = [op |-> "removeRange", obj |-> NoFile, at |-> i - 1,
                  wasCurrent |-> ranges[i].clicked /\ hit, toasts |-> <<>>]
        /\ UNCHANGED <<files, currentFile, selectedFile, isLoadingUrl,
                       pending>>
        /\ UNCHANGED pageCount
        /\ UNCHANGED previewVars
        /\ heap' = Collect(heap)

\* handleRangeChange(index, field, value)
HandleRangeChange(i, field, value) ==
    LET newRanges == [ranges EXCEPT ![i][field] = value]
        hit == selectedRangeId = newRanges[i].id
    IN  /\ EditorShown
        /\ ranges' = newRanges
        /\ fileRanges' =
              IF hit
              THEN onRangeChange(currentFile, heap, fileRanges,
                                 PreviewOf(newRanges[i],
                                           pageCount))
              ELSE fileRanges
        /\ ev' = Quiet
        /\ UNCHANGED <<files, currentFile, selectedFile,
                       selectedRangeId, isLoadingUrl, pending>>
        /\ UNCHANGED pageCount
        /\ UNCHANGED previewVars
        /\ heap' = Collect(heap)

\* the auto-correcting editor (part_002):
\*   value === "" ? "" : Math.max(1, parseInt(value) || 1).toString()
AutoValue(value) ==
    IF value = <<>> THEN <<>>
    ELSE LET p == ParseInt(value)
             n == IF p.nan \/ p.val = 0 THEN 1 ELSE p.val
         IN  ToText(IF n >= 1 THEN n ELSE 1)

\* the row handleRangeChange of that editor stores: the field is set, the
\* other bound is pulled along when the bounds cross, then the edited field
\* is cut down to the page count
AutoCorrect(r, field, value, pc) ==
    LET newValue == AutoValue(value)
        set == [r EXCEPT ![field] = newValue]
        ordered ==
           IF field = "start" /\ newValue # <<>>
           THEN LET start == ParseInt(newValue)
                    end   == ParseInt(set.end)
                IN  IF ~end.nan /\ start.val > end.val
                    THEN [set EXCEPT !.end = newValue] ELSE set
           ELSE IF field = "end" /\ newValue # <<>>
           THEN LET end   == ParseInt(newValue)
                    start == ParseInt(set.start)
                IN  IF ~start.nan /\ end.val < start.val
                    THEN [set EXCEPT !.start = newValue] ELSE set
           ELSE set
    IN  IF newValue # <<>> /\ ParseInt(newValue).val > pc
        THEN [ordered EXCEPT ![field] = ToText(pc)]
        ELSE ordered

\* handleRangeChange(index, field, value) of the auto-correcting editor
HandleRangeChangeAuto(i, field, value) ==
    LET newRanges == [ranges EXCEPT
                         ![i] = AutoCorrect(ranges[i], field, value, pageCount)]
        hit == selectedRangeId = newRanges[i].id
    IN  /\ EditorShown
        /\ ranges' = newRanges
        /\ fileRanges' =
              IF hit
              THEN onRangeChange(currentFile, heap, fileRanges,
                                 PreviewOf(newRanges[i], pageCount))
              ELSE fileRanges
        /\ ev' = [Quiet EXCEPT !.op = "rangeEdit", !.at = i - 1]
        /\ UNCHANGED <<files, currentFile, selectedFile,
                       selectedRangeId, isLoadingUrl, pending>>
        /\ UNCHANGED pageCount
        /\ UNCHANGED previewVars
        /\ heap' = Collect(heap)

\* handleRangeSelect(range)
HandleRangeSelect(i) ==
    /\ EditorShown
    /\ selectedRangeId' = ranges[i].id
    /\ ranges' = [k \in DOMAIN ranges |->
                      [ranges[k] EXCEPT !.clicked = (k = i)]]
    /\ fileRanges' = onRangeChange(currentFile, heap, fileRanges,
                                   PreviewOf(ranges[i],
                                             pageCount))
    /\ ev' = Quiet
    /\ UNCHANGED <<files, currentFile, selectedFile,
                   isLoadingUrl, pending>>
    /\ UNCHANGED pageCount
    /\ UNCHANGED previewVars
    /\ heap' = Collect(heap)

\* -------------------------------------------------- PDFTools: URL import
\* handleUrlChange(value) with a well-formed URL, up to `await fetch(value)'
HandleUrlChange ==
    /\ ~isLoadingUrl
    /\ Room(1)
    /\ isLoadingUrl' = TRUE
    /\ pending' = pending \cup
           {Task("url", NoFile, TRUE, FreeBatch, files, ClosureKeys, <<>>)}
    /\ ev' = Quiet
    /\ UNCHANGED <<files, currentFile, fileRanges, ranges,
                   selectedFile, selectedRangeId>>
    /\ UNCHANGED pageCount
    /\ UNCHANGED previewVars
    /\ heap' = Collect(heap)

\* the response is not a PDF: only urlError is set; or the fetch threw:
\* the catch logs, sets urlError and raises a toast
UrlFail(t, threw) ==
    /\ t.kind = "url"
    /\ isLoadingUrl' = FALSE
    /\ pending' = pending \ {t}
    /\ ev' = Toast(Event("urlFailed", NoFile),
                   IF threw THEN <<"Error importing PDF">> ELSE <<>>)
    /\ UNCHANGED <<files, currentFile, fileRanges, ranges,
                   selectedFile, selectedRangeId, pageCount>>
    /\ UNCHANGED previewVars
    /\ heap' = Collect(heap)

\* the response is a PDF (one that parses, of MaxPages pages):
\* onFileSelect(file); onFilesChange([...files, file]) with the files and
\* the onFileSelect of the render that started the import
UrlResume(t, b, sz) ==
    LET f   == Len(heap) + 1
        h   == Append(heap, NewFile(PlainName(b), sz, MaxPages))
        sel == selectPDF(f, h, t.keys, fileRanges)
    IN  /\ t.kind = "url"
        /\ files' = Append(t.snap, f)
        /\ currentFile' = sel.cur
        /\ Render(h, sel.cur, sel.fr, selectedFile, ranges, selectedRangeId)
        /\ isLoadingUrl' = FALSE
        /\ pending' = pending \ {t}
        /\ ev' = Toast(Event("urlImport", f), <<"PDF imported successfully">>)
        /\ UNCHANGED previewVars
        /\ heap' = Collect(h)

\* ------------------------------------------------------------- merge
\* byte size of a file the engine serializes: the same content gives the
\* same size; the model takes the number of pages for it
EngineSize(pg) == pg

\* new File([bytes], name) for the pages ps the engine saved
BuiltFile(n, ps) ==
    [name |-> n, size |-> EngineSize(Len(ps)), pages |-> ps, id |-> NoId,
     totalPages |-> Undef]

\* Array.from({length: end - start + 1}, (_, i) => start + i), 0-based
pageIndices(start, end) == [i \in 1..(end - start + 1) |-> start + i - 1]

\* a copy that hands the pages back last first
copyPagesReversed(ps, indices) ==
    [k \in DOMAIN indices |-> ps[indices[Len(indices) + 1 - k] + 1]]

\* copyPages(source, indices) followed by addPage of each copy, in order
copyPages(ps, indices) == [k \in DOMAIN indices |-> ps[indices[k] + 1]]

RECURSIVE MergedPagesReversed(_, _)
\* a loop that takes the sources from the end of the list
MergedPagesReversed(h, fs) ==
    IF fs = <<>> THEN <<>>
    ELSE MergedPagesReversed(h, Tail(fs))
         \o copyPages(h[Head(fs)].pages,
                      pageIndices(0, Len(h[Head(fs)].pages) - 1))

RECURSIVE MergedPages(_, _)
\* the loop of handleMergePDFs: every page of every source, in list order
MergedPages(h, fs) ==
    IF fs = <<>> THEN <<>>
    ELSE copyPages(h[Head(fs)].pages,
                   pageIndices(0, Len(h[Head(fs)].pages) - 1))
         \o MergedPages(h, Tail(fs))

\* a load that takes any bytes
LoadsAnything(h, f) == f \in DOMAIN h

\* PDFDocument.load rejects bytes that do not parse
Loads(h, f) == Len(h[f].pages) > 0

\* handleMergePDFs up to its first await (the button needs two files)
HandleMergePDFs ==
    /\ Len(files) > 1
    /\ pending' = pending \cup
           {Task("merge", NoFile, TRUE, FreeBatch, files, ClosureKeys, <<>>)}
    /\ ev' = Quiet
    /\ UNCHANGED <<files, currentFile, fileRanges, ranges,
                   selectedFile, selectedRangeId, isLoadingUrl>>
    /\ UNCHANGED pageCount
    /\ UNCHANGED previewVars
    /\ heap' = Collect(heap)

\* a source does not load: the catch calls console.error and the handler
\* returns; no toast is raised, nothing is thrown on
MergeFail(t) ==
    /\ t.kind = "merge"
    /\ \E f \in Range(t.snap) : ~Loads(heap, f)
    /\ pending' = pending \ {t}
    /\ ev' = Event("mergeFailed", NoFile)
    /\ UNCHANGED <<files, currentFile, fileRanges, ranges,
                   selectedFile, selectedRangeId, isLoadingUrl>>
    /\ UNCHANGED pageCount
    /\ UNCHANGED previewVars
    /\ heap' = Collect(heap)

\* the merged file is built: onMerge(mergedFile) starts handleMerge, which
\* suspends at `await calculatePageCount(mergedFile)'
MergeResume(t) ==
    LET f  == Len(heap) + 1
        h  == Append(heap, BuiltFile(MergedName, MergedPages(heap, t.snap)))
    IN  /\ t.kind = "merge"
        /\ \A g \in Range(t.snap) : Loads(heap, g)
        /\ pending' = (pending \ {t}) \cup
               {Task("mid", f, TRUE, t.batch, <<>>, t.keys, <<>>)}
        /\ ev' = Quiet
        /\ UNCHANGED <<files, currentFile, fileRanges, ranges,
                       selectedFile, selectedRangeId, isLoadingUrl>>
        /\ UNCHANGED pageCount
        /\ UNCHANGED previewVars
        /\ heap' = Collect(h)

\* handleMerge after its await: Object.assign(mergedFile, {id: uuidv4(),
\* totalPages}), then addFile(fileWithId, true) up to its own await
MergeAssign(t) ==
    /\ t.kind = "mid"
    /\ pending' = (pending \ {t}) \cup {[t EXCEPT !.kind = "madd"]}
    /\ ev' = Quiet
    /\ UNCHANGED <<files, currentFile, fileRanges, ranges,
                   selectedFile, selectedRangeId, isLoadingUrl>>
    /\ UNCHANGED pageCount
    /\ UNCHANGED previewVars
    /\ heap' = Collect(AssignId(heap, t.obj, 1))

\* ----------------------------------------------------------- extract
RECURSIVE ValidRangesUnordered(_, _)
\* a filter that lets rows with start > end through
ValidRangesUnordered(rs, pc) ==
    IF rs = <<>> THEN <<>>
    ELSE (IF /\ ~ParseInt(Head(rs).start).nan /\ ~ParseInt(Head(rs).end).nan
             /\ ParseInt(Head(rs).start).val > 0
             /\ LeqJS(ParseInt(Head(rs).end).val, pc)
          THEN <<<<ParseInt(Head(rs).start).val, ParseInt(Head(rs).end).val>>>>
          ELSE <<>>) \o ValidRangesUnordered(Tail(rs), pc)

RECURSIVE ValidRanges(_, _)
\* ranges.filter(valid), as <<start, end>> pairs, 1-based
ValidRanges(rs, pc) ==
    IF rs = <<>> THEN <<>>
    ELSE (IF isRangeValid(Head(rs), pc)
          THEN <<<<ParseInt(Head(rs).start).val, ParseInt(Head(rs).end).val>>>>
          ELSE <<>>) \o ValidRanges(Tail(rs), pc)

\* the run has room for the files an extract request would build
ExtractRoom(max) ==
    LET vr == ValidRanges(ranges, pageCount)
    IN  Len(vr) = 0 \/ RoomIn(Len(vr), max)

\* handleExtractRanges up to its first await; it returns at once when no
\* range is valid
HandleExtractRanges ==
    LET vr == ValidRanges(ranges, pageCount)
    IN  /\ EditorShown
        /\ IF Len(vr) = 0
           THEN pending' = pending
           ELSE pending' = pending \cup
                    {Task("extract", currentFile, FALSE, FreeBatch, <<>>,
                          ClosureKeys, vr)}
        /\ ev' = Event("extract", currentFile)
        /\ UNCHANGED <<files, currentFile, fileRanges, ranges,
                       selectedFile, selectedRangeId, isLoadingUrl>>
        /\ UNCHANGED pageCount
        /\ UNCHANGED previewVars
        /\ heap' = Collect(heap)

\* copyPages takes the indices it is handed when each of them is the index
\* of a page of the loaded document, and throws otherwise
Copyable(t) ==
    \A j \in DOMAIN t.valid :
       /\ 0 <= t.valid[j][1] - 1
       /\ t.valid[j][2] - 1 < Len(heap[t.obj].pages)

\* the engine has built one file per valid range; onExtract(extractedFiles)
\* starts handleExtract, which suspends once per file
ExtractResume(t) ==
    LET k == Len(t.valid)
        base == Len(heap)
        start(j) == t.valid[j][1] - 1
        end(j) == t.valid[j][2] - 1
        made == [j \in 1..k |->
                    BuiltFile(PagesName(heap[t.obj].name, start(j) + 1,
                                        end(j) + 1),
                              copyPages(heap[t.obj].pages,
                                        pageIndices(start(j), end(j))))]
        extractedFiles == [j \in 1..k |-> base + j]
    IN  /\ t.kind = "extract"
        /\ Copyable(t)
        /\ pending' = (pending \ {t}) \cup
               {Task("xid", base + j, j = 1, t.batch, extractedFiles, t.keys,
                     <<>>) : j \in 1..k}
        /\ ev' = Event("onExtract", t.obj)
        /\ UNCHANGED <<files, currentFile, fileRanges, ranges,
                       selectedFile, selectedRangeId, isLoadingUrl>>
        /\ UNCHANGED pageCount
        /\ UNCHANGED previewVars
        /\ heap' = Collect(heap \o made)

\* handleExtract for one file after `await calculatePageCount(file)':
\* Object.assign(file, {id: uuidv4(), totalPages}), then addFile(fileWithId,
\* false) up to its own await
ExtractAssign(t) ==
    /\ t.kind = "xid"
    /\ pending' = (pending \ {t}) \cup {[t EXCEPT !.kind = "xadd"]}
    /\ ev' = Quiet
    /\ UNCHANGED <<files, currentFile, fileRanges, ranges,
                   selectedFile, selectedRangeId, isLoadingUrl>>
    /\ UNCHANGED pageCount
    /\ UNCHANGED previewVars
    /\ heap' = Collect(AssignId(heap, t.obj, 1))

\* addFile(fileWithId, false) after its await: the id is assigned again,
\* the file appended unless duplicate; when it is the last of its batch,
\* Promise.all resolves and selectPDF(filesWithIds[0]) runs
ExtractAddResume(t) ==
    LET f    == t.obj
        h    == AssignId(heap, f, 2)
        last == ~\E u \in pending \ {t} :
                    u.kind \in {"xid", "xadd"} /\ u.batch = t.batch
        sel  == IF last THEN selectPDF(t.snap[1], h, t.keys, fileRanges)
                ELSE [cur |-> currentFile, fr |-> fileRanges]
    IN  /\ t.kind = "xadd"
        /\ files' = AppendUnique(h, files, f)
        /\ currentFile' = sel.cur
        /\ Render(h, sel.cur, sel.fr, selectedFile, ranges, selectedRangeId)
        /\ pending' = pending \ {t}
        /\ ev' = Toast(Event("addFile", f),
                       IF last THEN <<"Pages extracted">> ELSE <<>>)
        /\ UNCHANGED isLoadingUrl
        /\ UNCHANGED previewVars
        /\ heap' = Collect(h)

\* ------------------------------------- the container that keeps pageCount
\* pdf-container.tsx holds the page count of the current file as state and
\* hands it to PDFTools; its files carry no id and it keeps one
\* selectedRange (no row is clicked below, so that range stays null)

\* handleExtractRanges: copyPages threw; the catch calls console.error and
\* the handler returns; no toast is raised, nothing is thrown on
ExtractFail(t) ==
    /\ t.kind = "extract"
    /\ ~Copyable(t)
    /\ pending' = pending \ {t}
    /\ ev' = Event("extractFailed", t.obj)
    /\ UNCHANGED <<files, currentFile, fileRanges, ranges, selectedFile,
                   selectedRangeId, isLoadingUrl, pageCount>>
    /\ UNCHANGED previewVars
    /\ heap' = Collect(heap)

\* a click on a file row: PDFTools.handleFileSelect sets selectedFile and
\* calls the container's handleFileSelect, which sets the current file and
\* suspends at `await calculatePageCount(file)'
HandleFileSelectCount(i) ==
    LET file == files[i]
    IN  /\ Room(0)
        /\ currentFile' = file
        /\ selectedFile' = file
        /\ pending' = pending \cup
               {Task("count", file, FALSE, FreeBatch, <<>>, {}, <<>>)}
        /\ ev' = Event("select", file)
        /\ UNCHANGED <<files, fileRanges, ranges, selectedRangeId,
                       isLoadingUrl, pageCount>>
        /\ UNCHANGED previewVars
        /\ heap' = Collect(heap)

\* handleFileSelect / handleExtract / addFile under handleMerge after
\* `await calculatePageCount(file)': setPageCount(count), then the toast of
\* handleExtract or handleMerge
SetPageCount(t) ==
    /\ t.kind \in {"count", "xcount", "mcount"}
    /\ pageCount' = calculatePageCount(heap, t.obj)
    /\ pending' = pending \ {t}
    /\ ev' = Toast(Quiet, CASE t.kind = "xcount" -> <<"Pages extracted">>
                            [] t.kind = "mcount" -> <<"PDFs merged">>
                            [] OTHER -> <<>>)
    /\ UNCHANGED <<files, currentFile, fileRanges, ranges, selectedFile,
                   selectedRangeId, isLoadingUrl>>
    /\ UNCHANGED previewVars
    /\ heap' = Collect(heap)

RECURSIVE AddAll(_, _, _)
\* for (const file of extractedFiles) await addFile(file, false)
AddAll(h, fs, new) ==
    IF new = <<>> THEN fs
    ELSE AddAll(h, AppendUnique(h, fs, Head(new)), Tail(new))

\* handleExtractRanges after its awaits, with the handleExtract of this
\* container: every file is added unless duplicate, the first one becomes
\* the current file and handleExtract suspends at calculatePageCount
ExtractResumeCount(t) ==
    LET k == Len(t.valid)
        base == Len(heap)
        start(j) == t.valid[j][1] - 1
        end(j) == t.valid[j][2] - 1
        made == [j \in 1..k |->
                    BuiltFile(PagesName(heap[t.obj].name, start(j) + 1,
                                        end(j) + 1),
                              copyPages(heap[t.obj].pages,
                                        pageIndices(start(j), end(j))))]
        extractedFiles == [j \in 1..k |-> base + j]
        h == heap \o made
    IN  /\ t.kind = "extract"
        /\ Copyable(t)
        /\ files' = AddAll(h, files, extractedFiles)
        /\ currentFile' = extractedFiles[1]
        /\ Effect(h, extractedFiles[1], fileRanges, selectedFile, ranges,
                  selectedRangeId)
        /\ pending' = (pending \ {t}) \cup
               {Task("xcount", extractedFiles[1], FALSE, t.batch, <<>>, {},
                     <<>>)}
        /\ ev' = Event("onExtract", t.obj)
        /\ UNCHANGED <<isLoadingUrl, pageCount>>
        /\ UNCHANGED previewVars
        /\ heap' = Collect(h)

\* handleMergePDFs after its awaits, with the handleMerge of this
\* container: addFile(mergedFile, true) appends the file unless duplicate,
\* makes it the current file and suspends at calculatePageCount
MergeResumeCount(t) ==
    LET f  == Len(heap) + 1
        h  == Append(heap, BuiltFile(MergedName, MergedPages(heap, t.snap)))
    IN  /\ t.kind = "merge"
        /\ \A g \in Range(t.snap) : Loads(heap, g)
        /\ files' = AppendUnique(h, files, f)
        /\ currentFile' = f
        /\ Effect(h, f, fileRanges, selectedFile, ranges, selectedRangeId)
        /\ pending' = (pending \ {t}) \cup
               {Task("mcount", f, FALSE, t.batch, <<>>, {}, <<>>)}
        /\ ev' = Event("onMerge", f)
        /\ UNCHANGED <<isLoadingUrl, pageCount>>
        /\ UNCHANGED previewVars
        /\ heap' = Collect(h)

\* handleDelete of this container: the file leaves the list; when it is
\* the current file there is no current file afterwards
HandleDeleteCount(i) ==
    LET file == files[i]
        cf   == IF currentFile = file THEN NoFile ELSE currentFile
    IN  /\ files' = Filter(files, file)
        /\ currentFile' = cf
        /\ Effect(heap, cf, fileRanges, selectedFile, ranges, selectedRangeId)
        /\ ev' = Toast(Event("delete", file), <<"File deleted">>)
        /\ UNCHANGED <<isLoadingUrl, pageCount, pending>>
        /\ UNCHANGED previewVars
        /\ heap' = Collect(heap)

\* ---------------------------------- the first PDFTools (pdf-tools.tsx 1-261)
\* It keeps selectedFile and pageCount as its own state and has no effect
\* on currentFile.

\* handleFileSelect(file) up to its awaits: setSelectedFile(file),
\* onFileSelect(file) (the container's selectPDF), then the file's bytes
\* are read and handed to PDFDocument.load
HandleFileSelectLoad(i) ==
    LET file == files[i]
        sel  == selectPDF(file, heap, DOMAIN fileRanges, fileRanges)
    IN  /\ Room(0)
        /\ selectedFile' = file
        /\ currentFile' = sel.cur
        /\ fileRanges' = sel.fr
        /\ pending' = pending \cup
               {Task("load", file, FALSE, FreeBatch, <<>>, {}, <<>>)}
        /\ ev' = Event("select", file)
        /\ UNCHANGED <<files, ranges, selectedRangeId, isLoadingUrl,
                       pageCount>>
        /\ UNCHANGED previewVars
        /\ heap' = Collect(heap)

\* the bytes parse: setPageCount(pdf.getPageCount())
LoadResume(t) ==
    /\ t.kind = "load"
    /\ Loads(heap, t.obj)
    /\ pageCount' = Len(heap[t.obj].pages)
    /\ pending' = pending \ {t}
    /\ ev' = Quiet
    /\ UNCHANGED <<files, currentFile, fileRanges, ranges, selectedFile,
                   selectedRangeId, isLoadingUrl>>
    /\ UNCHANGED previewVars
    /\ heap' = Collect(heap)

\* the bytes do not parse: PDFDocument.load throws, nothing catches it, the
\* promise of handleFileSelect is rejected and setPageCount is not reached
LoadReject(t) ==
    /\ t.kind = "load"
    /\ ~Loads(heap, t.obj)
    /\ pending' = pending \ {t}
    /\ ev' = Event("selectFailed", t.obj)
    /\ UNCHANGED <<files, currentFile, fileRanges, ranges, selectedFile,
                   selectedRangeId, isLoadingUrl, pageCount>>
    /\ UNCHANGED previewVars
    /\ heap' = Collect(heap)

\* handleDelete(e, file) of this PDFTools: its own state is reset when the
\* file is the selected one, then onDelete(file) runs the container's
\* handleDelete
HandleDeleteTools(i) ==
    LET file == files[i]
        hit  == file = selectedFile
        nextFile == NextAfterDelete(files, file)
        fr1 == Remove(fileRanges, heap[file].id)
        sel == selectPDF(nextFile, heap, DOMAIN fileRanges, fr1)
    IN  /\ selectedFile' = IF hit THEN NoFile ELSE selectedFile
        /\ pageCount' = IF hit THEN 0 ELSE pageCount
        /\ ranges' = IF hit THEN BlankRanges ELSE ranges
        /\ files' = Filter(files, file)
        /\ currentFile' = sel.cur
        /\ fileRanges' = sel.fr
        /\ ev' = Toast(Event("delete", file), <<"PDF deleted">>)
        /\ UNCHANGED <<selectedRangeId, isLoadingUrl, pending>>
        /\ UNCHANGED previewVars
        /\ heap' = Collect(heap)

\* --------------------------------------- PreviewWindow (pdf-viewer.tsx)
\* The Viewer of @react-pdf-viewer/core counts pages from 0: the pageIndex
\* it hands to renderPage, the currentPage of its page-change event and the
\* argument of jumpToPage are indices.  selectedRange holds page numbers.

\* const bufferSize = 250
bufferSize == 250

\* page indices and ranges the checks run over
ViewerPages == {0, 8, 9, 12, 19, 20, 24, 300}
ViewerRanges == {[start |-> 10, end |-> 20], [start |-> 10, end |-> 400]}

\* Math.max, Math.min
\* a maximum that keeps its first argument
MaxLeft(a, b) == a

Max(a, b) == IF a >= b THEN a ELSE b
Min(a, b) == IF a <= b THEN a ELSE b

\* a window that the range does not clip
WindowUnclipped(pageIndex, sr, B) ==
    [start |-> pageIndex - B, end |-> pageIndex + B]

\* renderPage: the window [start, end] computed for the page laid out
Window(pageIndex, sr, B) ==
    IF sr # NullRange
    THEN [start |-> Max(pageIndex - B, sr.start),
          end   |-> Min(pageIndex + B, sr.end)]
    ELSE [start |-> pageIndex - B, end |-> pageIndex + B]

\* renderPage: whether the page passes `pageNumber < start || pageNumber >
\* end'; the element returned holds the children of the three layers in
\* either case
InWindow(pageIndex, sr, B) ==
    LET w == Window(pageIndex, sr, B)
        pageNumber == pageIndex + 1
    IN  ~(pageNumber < w.start \/ pageNumber > w.end)

\* setRenderRange(visiblePagesRange), as <<startPage, endPage>>
setRenderRange(visiblePagesRange, sr) ==
    IF sr # NullRange THEN <<sr.start - 1, sr.end - 1>>
    ELSE visiblePagesRange

\* the range-navigation effect: the jumpToPage call it makes, if any
NavJump(sr, cp) ==
    IF sr = NullRange THEN NoJump
    ELSE LET start == sr.start - 1
             end   == sr.end - 1
         IN  IF cp < start THEN start
             ELSE IF cp > end THEN end
             ELSE NoJump

\* a cleanup that does not release the URL
revokeObjectURLNot(rv, url) == rv

\* URL.revokeObjectURL(url)
revokeObjectURL(rv, url) ==
    IF url = NoUrl THEN rv ELSE [rv EXCEPT ![url] = @ + 1]

ViewerEvent(o) == [Quiet EXCEPT !.op = o]

\* the Viewer is rendered: `if (!file || !fileUrl)' does not return early
ViewerShown == mounted /\ previewFile # NoFile /\ fileUrl # NoUrl

\* the Viewer lays out the page of index i and calls renderPage; the
\* visible pages are the one shown and up to one more
RenderPage(i, more) ==
    LET w == Window(i, selectedRange, bufferSize)
    IN  /\ ViewerShown /\ ~loading
        /\ rendered' = [pageIndex |-> i,
                        inWindow |-> InWindow(i, selectedRange, bufferSize),
                        start |-> w.start, end |-> w.end,
                        content |-> {"canvas", "text", "annotation"},
                        range |-> setRenderRange(
                                     <<viewerPage, viewerPage + more>>,
                                     selectedRange)]
        /\ jump' = NoJump
        /\ ev' = ViewerEvent("renderPage")
        /\ UNCHANGED <<previewFile, selectedRange, fileUrl, loading,
                       currentPage, mounted, cleanup, revoked, viewerPage>>
        /\ UNCHANGED workspaceVars

\* the user scrolls to the page of index p: the Viewer calls onPageChange
\* with currentPage = p, the handler stores p - 1, and the navigation
\* effect runs when that changes the state
PageChange(p) ==
    LET cp == p - 1
    IN  /\ ViewerShown /\ ~loading
        /\ p # viewerPage
        /\ viewerPage' = p
        /\ currentPage' = cp
        /\ jump' = IF cp # currentPage THEN NavJump(selectedRange, cp)
                   ELSE NoJump
        /\ rendered' = NoRender
        /\ ev' = ViewerEvent("pageChange")
        /\ UNCHANGED <<previewFile, selectedRange, fileUrl, loading,
                       mounted, cleanup, revoked>>
        /\ UNCHANGED workspaceVars

\* the Viewer has scrolled to the page it was told to jump to; that is a
\* page change like the user's
JumpLands ==
    LET cp == jump - 1
    IN  /\ ViewerShown /\ ~loading
        /\ jump # NoJump /\ jump # viewerPage
        /\ viewerPage' = jump
        /\ currentPage' = cp
        /\ jump' = IF cp # currentPage THEN NavJump(selectedRange, cp)
                   ELSE NoJump
        /\ rendered' = NoRender
        /\ ev' = ViewerEvent("jumpLands")
        /\ UNCHANGED <<previewFile, selectedRange, fileUrl, loading,
                       mounted, cleanup, revoked>>
        /\ UNCHANGED workspaceVars

\* the container passes another selectedRange: the navigation effect runs
RangeChange(r) ==
    /\ mounted
    /\ r # selectedRange
    /\ selectedRange' = r
    /\ jump' = NavJump(r, currentPage)
    /\ rendered' = NoRender
    /\ ev' = ViewerEvent("rangeChange")
    /\ UNCHANGED <<previewFile, fileUrl, loading, currentPage, mounted,
                   cleanup, revoked, viewerPage>>
    /\ UNCHANGED workspaceVars

\* the effect on [file], with the cleanup of its previous run first:
\* URL.revokeObjectURL(url) of the url that run created, then
\* createObjectURL(file) and setFileUrl(url), or setFileUrl(null)
FileEffect(f, rv) ==
    LET rv1 == revokeObjectURL(rv, cleanup)
        url == Len(rv1) + 1
    IN  IF f # NoFile
        THEN /\ loading' = TRUE
             /\ revoked' = Append(rv1, 0)
             /\ fileUrl' = url
             /\ cleanup' = url
        ELSE /\ loading' = loading
             /\ revoked' = rv1
             /\ fileUrl' = NoUrl
             /\ cleanup' = NoUrl

\* the container passes another file; the Viewer starts on its first page
FileChange(f) ==
    /\ mounted
    /\ f # previewFile
    /\ previewFile' = f
    /\ FileEffect(f, revoked)
    /\ viewerPage' = 0
    /\ jump' = NoJump
    /\ rendered' = NoRender
    /\ ev' = ViewerEvent("fileChange")
    /\ UNCHANGED <<selectedRange, currentPage, mounted>>
    /\ UNCHANGED workspaceVars

\* onDocumentLoad: setLoading(false), and jumpToPage(start - 1) under a
\* selected range
DocumentLoad ==
    /\ ViewerShown /\ loading
    /\ loading' = FALSE
    /\ jump' = IF selectedRange # NullRange THEN selectedRange.start - 1
               ELSE NoJump
    /\ rendered' = NoRender
    /\ ev' = ViewerEvent("documentLoad")
    /\ UNCHANGED <<previewFile, selectedRange, fileUrl, currentPage, mounted,
                   cleanup, revoked, viewerPage>>
    /\ UNCHANGED workspaceVars

\* the component unmounts: the cleanup of the last effect run
Unmount ==
    /\ mounted
    /\ mounted' = FALSE
    /\ revoked' = revokeObjectURL(revoked, cleanup)
    /\ cleanup' = NoUrl
    /\ jump' = NoJump
    /\ rendered' = NoRender
    /\ ev' = ViewerEvent("unmount")
    /\ UNCHANGED <<previewFile, selectedRange, fileUrl, loading, currentPage,
                   viewerPage>>
    /\ UNCHANGED workspaceVars

\* the component mounts again with the file f: fresh state, the effect
\* runs for f
Mount(f) ==
    /\ ~mounted
    /\ mounted' = TRUE
    /\ previewFile' = f
    /\ FileEffect(f, revoked)
    /\ currentPage' = 0
    /\ viewerPage' = 0
    /\ jump' = NavJump(selectedRange, 0)
    /\ rendered' = NoRender
    /\ ev' = ViewerEvent("mount")
    /\ UNCHANGED selectedRange
    /\ UNCHANGED workspaceVars

\* ------------------------------------------------------ specifications
\* no async handler is in flight
Idle == pending = {}

\* The workspace with its range editor; the user starts an upload, an
\* import, a merge or an extract when the previous one has finished, and
\* clicks, navigates, deletes and edits at any time
Next ==
    \/ \E a, b \in Picked : Idle /\ HandleFileUpload(a, b)
    \/ \E t \in pending : AddFileResume(t)
    \/ \E i \in DOMAIN files : HandleFileSelect(i)
    \/ \E i \in DOMAIN files : ClickDelete(i)
    \/ KeyDelete
    \/ \E up \in BOOLEAN : HandleKeyNavigation(up)
    \/ Len(ranges) < MaxRanges /\ HandleAddRange
    \/ \E i \in DOMAIN ranges : HandleRemoveRange(i)
    \/ \E i \in DOMAIN ranges, field \in {"start", "end"}, v \in TextInputs :
           HandleRangeChange(i, field, v)
    \/ \E i \in DOMAIN ranges : HandleRangeSelect(i)
    \/ Idle /\ HandleUrlChange
    \/ \E t \in pending, threw \in BOOLEAN : UrlFail(t, threw)
    \/ \E t \in pending, b \in 1..MaxNames, sz \in 1..MaxSizes :
           UrlResume(t, b, sz)
    \/ Idle /\ Room(1) /\ HandleMergePDFs
    \/ \E t \in pending : MergeFail(t)
    \/ \E t \in pending : MergeResume(t)
    \/ \E t \in pending : MergeAssign(t)
    \/ Idle /\ ExtractRoom(MaxObjs) /\ HandleExtractRanges
    \/ \E t \in pending : ExtractResume(t)
    \/ \E t \in pending : ExtractAssign(t)
    \/ \E t \in pending : ExtractAddResume(t)

Spec == Init /\ [][Next]_vars

\* The workspace with up to MaxPending async handlers in flight at once
\* (uploads, imports and merges overlap), without the range editor
NextRace ==
    \/ \E a, b \in Picked : HandleFileUpload(a, b)
    \/ \E t \in pending : AddFileResume(t)
    \/ \E i \in DOMAIN files : HandleFileSelect(i)
    \/ \E i \in DOMAIN files : ClickDelete(i)
    \/ \E up \in BOOLEAN : HandleKeyNavigation(up)
    \/ HandleUrlChange
    \/ \E t \in pending, threw \in BOOLEAN : UrlFail(t, threw)
    \/ \E t \in pending, b \in 1..MaxNames, sz \in 1..MaxSizes :
           UrlResume(t, b, sz)
    \/ Room(1) /\ HandleMergePDFs
    \/ \E t \in pending : MergeFail(t)
    \/ \E t \in pending : MergeResume(t)
    \/ \E t \in pending : MergeAssign(t)

SpecRace == Init /\ [][NextRace]_vars

\* The range editor of one document.  The workspace starts as an upload of
\* one file of MaxPages pages into the empty workspace leaves it
InitEditor ==
    /\ heap = AssignId(<<NewFile(PlainName(1), 1, MaxPages)>>, 1, 1)
    /\ files = <<1>>
    /\ currentFile = 1
    /\ fileRanges = <<>>
    /\ ranges = BlankRanges
    /\ selectedFile = 1
    /\ selectedRangeId = NoRange
    /\ isLoadingUrl = FALSE
    /\ pageCount = calculatePageCount(heap, currentFile)
    /\ pending = {}
    /\ InitPreview
    /\ ev = [op |-> "addFile", obj |-> 1, at |-> 0 - 1, wasCurrent |-> FALSE,
             toasts |-> <<"Files added">>]

NextEditor ==
    \/ Len(ranges) < MaxRows /\ HandleAddRange
    \/ \E i \in DOMAIN ranges : HandleRemoveRange(i)
    \/ \E i \in DOMAIN ranges, field \in {"start", "end"}, v \in EditorInputs :
           HandleRangeChange(i, field, v)
    \/ \E i \in DOMAIN ranges : HandleRangeSelect(i)

SpecEditor == InitEditor /\ [][NextEditor]_vars

\* Extract requests.  The workspace starts as in InitEditor with rows typed
\* into the editor: up to MaxRows rows, added one after the other
RowLists ==
    UNION {[1..n -> [id : 1..MaxRows, start : EditorInputs,
                     end : EditorInputs, clicked : {FALSE}]]
           : n \in 0..MaxRows}

InitExtract ==
    /\ heap = AssignId(<<NewFile(PlainName(1), 1, MaxPages)>>, 1, 1)
    /\ files = <<1>>
    /\ currentFile = 1
    /\ fileRanges = <<>>
    /\ ranges \in {rs \in RowLists : \A i \in DOMAIN rs : rs[i].id = i}
    /\ selectedFile = 1
    /\ selectedRangeId = NoRange
    /\ isLoadingUrl = FALSE
    /\ pageCount = calculatePageCount(heap, currentFile)
    /\ pending = {}
    /\ InitPreview
    /\ ev = Quiet

NextExtract ==
    \/ Idle /\ ExtractRoom(MaxObjs) /\ HandleExtractRanges
    \/ \E t \in pending : ExtractResume(t)
    \/ \E t \in pending : ExtractAssign(t)
    \/ \E t \in pending : ExtractAddResume(t)

SpecExtract == InitExtract /\ [][NextExtract]_vars

\* Merges.  The workspace starts as an upload of two files of MaxPages
\* pages leaves it; the Merge button can be pressed again while a merge is
\* in flight, and files are clicked and deleted meanwhile
InitMerge ==
    /\ heap = AssignId(AssignId(<<NewFile(PlainName(1), 1, MaxPages),
                                  NewFile(PlainName(1), 2, MaxPages)>>,
                                1, 1), 2, 1)
    /\ files = <<1, 2>>
    /\ currentFile = 1
    /\ fileRanges = <<>>
    /\ ranges = BlankRanges
    /\ selectedFile = 1
    /\ selectedRangeId = NoRange
    /\ isLoadingUrl = FALSE
    /\ pageCount = pageCountProp(heap, currentFile)
    /\ pending = {}
    /\ InitPreview
    /\ ev = Quiet

NextMerge ==
    \/ RoomIn(1, MaxMergeObjs) /\ HandleMergePDFs
    \/ \E t \in pending : MergeResume(t)
    \/ \E t \in pending : MergeAssign(t)
    \/ \E t \in pending : AddFileResume(t)
    \/ \E i \in DOMAIN files : HandleFileSelect(i)
    \/ \E i \in DOMAIN files : ClickDelete(i)

SpecMerge == InitMerge /\ [][NextMerge]_vars

\* The first PDFTools under the container that keeps ids, after an upload
\* of three files: of MaxPages pages, of one page, and one that does not
\* parse.  The first is the current file; no row has been clicked
InitTools ==
    /\ heap = AssignId(AssignId(AssignId(
                  <<NewFile(PlainName(1), 1, MaxPages),
                    NewFile(PlainName(1), 2, 1),
                    NewFile(PlainName(1), MaxSizes + 1, 0)>>, 1, 1), 2, 1), 3, 1)
    /\ files = <<1, 2, 3>>
    /\ currentFile = 1
    /\ fileRanges = selectPDF(1, heap, {}, <<>>).fr
    /\ ranges = BlankRanges
    /\ selectedFile = NoFile
    /\ selectedRangeId = NoRange
    /\ isLoadingUrl = FALSE
    /\ pageCount = 0
    /\ pending = {}
    /\ InitPreview
    /\ ev = Quiet

NextTools ==
    \/ \E i \in DOMAIN files : HandleFileSelectLoad(i)
    \/ \E t \in pending : LoadResume(t)
    \/ \E t \in pending : LoadReject(t)
    \/ \E i \in DOMAIN files : HandleDeleteTools(i)

SpecTools == InitTools /\ [][NextTools]_vars

\* The preview.  The workspace does not move; the container passes files
\* and ranges, the user scrolls, the Viewer lays out pages
NextPreview ==
    \/ \E i \in ViewerPages, more \in 0..1 : RenderPage(i, more)
    \/ \E p \in ViewerPages : PageChange(p)
    \/ JumpLands
    \/ \E r \in ViewerRanges \cup {NullRange} : RangeChange(r)
    \/ \E f \in 0..MaxPreviewFiles : Len(revoked) < MaxUrls /\ FileChange(f)
    \/ DocumentLoad
    \/ Unmount
    \/ \E f \in 0..MaxPreviewFiles : Len(revoked) < MaxUrls /\ Mount(f)

SpecPreview == Init /\ [][NextPreview]_vars

\* The container that keeps pageCount, after an upload of three files: the
\* first, of MaxPages pages, is the current one and its pages are counted;
\* the second has one page, the third does not parse
InitPageCount ==
    /\ heap = <<NewFile(PlainName(1), 1, MaxPages), NewFile(PlainName(1), 2, 1),
                NewFile(PlainName(1), MaxSizes + 1, 0)>>
    /\ files = <<1, 2, 3>>
    /\ currentFile = 1
    /\ fileRanges = <<>>
    /\ ranges = BlankRanges
    /\ selectedFile = 1
    /\ selectedRangeId = NoRange
    /\ isLoadingUrl = FALSE
    /\ pageCount = calculatePageCount(heap, 1)
    /\ pending = {}
    /\ InitPreview
    /\ ev = Quiet

NextPageCount ==
    \/ \E i \in DOMAIN files : HandleFileSelectCount(i)
    \/ \E t \in pending : SetPageCount(t)
    \/ \E i \in DOMAIN ranges, field \in {"start", "end"}, v \in CountInputs :
           HandleRangeChange(i, field, v)
    \/ Len(ranges) < MaxCountRows /\ HandleAddRange
    \/ ExtractRoom(MaxCountObjs) /\ HandleExtractRanges
    \/ \E t \in pending : ExtractResumeCount(t)
    \/ \E t \in pending : ExtractFail(t)
    \/ RoomIn(1, MaxCountObjs) /\ HandleMergePDFs
    \/ \E t \in pending : MergeFail(t)
    \/ \E t \in pending : MergeResumeCount(t)
    \/ \E i \in DOMAIN files : HandleDeleteCount(i)

SpecPageCount == InitPageCount /\ [][NextPageCount]_vars

\* Validation.  A document of any of the page counts is loaded (one that
\* does not parse has 0 pages); the user types into the row and clicks it
InitValidate ==
    /\ \E n \in ValidatePages :
          heap = AssignId(<<NewFile(PlainName(1), 1, n)>>, 1, 1)
    /\ files = <<1>>
    /\ currentFile = 1
    /\ fileRanges = <<>>
    /\ ranges = BlankRanges
    /\ selectedFile = 1
    /\ selectedRangeId = NoRange
    /\ isLoadingUrl = FALSE
    /\ pageCount = calculatePageCount(heap, currentFile)
    /\ pending = {}
    /\ InitPreview
    /\ ev = Quiet

NextValidate ==
    \/ \E i \in DOMAIN ranges, field \in {"start", "end"}, v \in ValidateTexts :
           HandleRangeChange(i, field, v)
    \/ \E i \in DOMAIN ranges : HandleRangeSelect(i)

SpecValidate == InitValidate /\ [][NextValidate]_vars

\* The auto-correcting range editor.  A document of 1 to MaxAutoPages
\* pages is loaded; the user types into the rows, adds, removes and clicks
\* them
InitAuto ==
    /\ \E n \in 1..MaxAutoPages :
          heap = AssignId(<<NewFile(PlainName(1), 1, n)>>, 1, 1)
    /\ files = <<1>>
    /\ currentFile = 1
    /\ fileRanges = <<>>
    /\ ranges = BlankRanges
    /\ selectedFile = 1
    /\ selectedRangeId = NoRange
    /\ isLoadingUrl = FALSE
    /\ pageCount = calculatePageCount(heap, currentFile)
    /\ pending = {}
    /\ InitPreview
    /\ ev = Quiet

NextAuto ==
    \/ \E i \in DOMAIN ranges, field \in {"start", "end"}, v \in AutoInputs :
           HandleRangeChangeAuto(i, field, v)
    \/ Len(ranges) < MaxAutoRows /\ HandleAddRange
    \/ \E i \in DOMAIN ranges : HandleRemoveRange(i)
    \/ \E i \in DOMAIN ranges : HandleRangeSelect(i)

SpecAuto == InitAuto /\ [][NextAuto]_vars

\* ================================================================ claims
\* entries of fs with name n and size sz, and entries with name n
CountSame(h, fs, n, sz) ==
    Cardinality({i \in DOMAIN fs : h[fs[i]].name = n /\ h[fs[i]].size = sz})
CountName(h, fs, n) ==
    Cardinality({i \in DOMAIN fs : h[fs[i]].name = n})

\* C1: addFile de-duplicates by name and size.  When the list holds one
\* entry of the added file's name and size, the list is left as it is, with
\* that one entry; when it holds none, the file is appended, so the entries
\* of its name are one more than before (two when a file of the same name
\* and another size was there).
C1_Dedupe ==
    [][ev'.op = "addFile" =>
         LET f  == ev'.obj
             n  == heap'[f].name
             sz == heap'[f].size
         IN  /\ CountSame(heap, files, n, sz) = 1 =>
                    /\ files' = files
                    /\ CountSame(heap', files', n, sz) = 1
             /\ CountSame(heap, files, n, sz) = 0 =>
                    /\ files' = Append(files, f)
                    /\ CountSame(heap', files', n, sz) = 1
                    /\ CountName(heap', files', n) =
                           CountName(heap, files, n) + 1]_vars

\* C1 witness: the list holds two files of one name and two sizes, and the
\* addFile that ran last was turned away because its name and size were there
C1_Witness ==
    /\ ev.op = "addFile"
    /\ ev.obj \notin Range(files)
    /\ CountSame(heap, files, heap[ev.obj].name, heap[ev.obj].size) = 1
    /\ CountName(heap, files, heap[ev.obj].name) = 2

\* C2: in every reachable state `files' holds no two entries of the same
\* name and the same byte size
C2_NoTwoSameNameSize ==
    \A i, j \in DOMAIN files :
        (i # j) => ~(/\ heap[files[i]].name = heap[files[j]].name
                     /\ heap[files[i]].size = heap[files[j]].size)

\* C3: an addFile that is turned away (a file of its name and size is in
\* the list) leaves files, currentFile, fileRanges and selectedRangeId as
\* they were, whether or not it was asked to make the file current
C3_RejectedAddNoOp ==
    [][(/\ ev'.op = "addFile"
        /\ CountSame(heap, files, heap'[ev'.obj].name,
                     heap'[ev'.obj].size) > 0)
       => UNCHANGED <<files, currentFile, fileRanges, selectedRangeId>>]_vars

\* C4: in every reachable state the current file is null or an element of
\* `files' (and so it is null when `files' is empty)
C4_CurrentInFiles ==
    /\ currentFile = NoFile \/ currentFile \in Range(files)
    /\ files = <<>> => currentFile = NoFile

\* C5: in every reachable state every key of fileRanges is the id of a file
\* in `files'
C5_NoOrphanRanges ==
    DOMAIN fileRanges \subseteq {heap[f].id : f \in Range(files)}

\* C6: a handler that makes current a file that has no entry in fileRanges
\* leaves it with the default entry {start: 1, end: totalPages}; a handler
\* that makes current a file that has an entry leaves that entry as it was
C6_SeedAndKeep ==
    [][(currentFile' # currentFile /\ currentFile' # NoFile) =>
         LET id == heap'[currentFile'].id
         IN  /\ id \in DOMAIN fileRanges'
             /\ fileRanges'[id] =
                    IF id \in DOMAIN fileRanges THEN fileRanges[id]
                    ELSE [start |-> 1,
                          end |-> heap'[currentFile'].totalPages]]_vars

\* C7: every handler that changes the current file leaves no range selected
C7_SelectionCleared ==
    [][currentFile' # currentFile => selectedRangeId' = NoRange]_vars

\* C8: selecting (by click or by keyboard) the file that the previous
\* handler selected changes nothing: the current file, fileRanges and
\* selectedRangeId are those the first selection left
C8_SelectTwice ==
    [][(/\ ev.op \in {"select", "keyNav"}
        /\ ev'.op \in {"select", "keyNav"}
        /\ ev'.obj = ev.obj)
       => UNCHANGED <<files, currentFile, fileRanges, ranges,
                      selectedRangeId>>]_vars

\* the position of x in s, 1-based
Position(s, x) == CHOOSE i \in DOMAIN s : s[i] = x

\* C9: when the current file, an element of `files', is deleted, the new
\* current file is the one that stood just before it; the first of the
\* remaining files when it was the first; null when none remains
C9_DeleteReselect ==
    [][(/\ ev'.op = "delete"
        /\ ev'.obj = currentFile
        /\ currentFile \in Range(files))
       => LET p == Position(files, currentFile)
          IN  currentFile' =
                 IF Len(files) = 1 THEN NoFile
                 ELSE IF p > 1 THEN files[p - 1] ELSE files[2]]_vars

\* C9 witness: the current file stood second of three and was deleted; the
\* file that stood before it is current
C9_Witness ==
    /\ ev.op = "delete"
    /\ ev.wasCurrent
    /\ ev.at = 1
    /\ Len(files) = 2
    /\ currentFile = files[1]

\* C10: deleting a file that is not the current file, the current file being
\* an element of `files', leaves the current file and the selected range as
\* they were
C10_DeleteOtherKeepsCurrent ==
    [][(/\ ev'.op = "delete"
        /\ ev'.obj # currentFile
        /\ currentFile \in Range(files))
       => UNCHANGED <<currentFile, selectedRangeId>>]_vars

\* C11: handleDelete of a file that is not an element of `files' leaves
\* files, currentFile, fileRanges and selectedRangeId as they were
C11_DeleteUnknownNoOp ==
    [][(ev'.op = "delete" /\ ev'.at = 0 - 1)
       => UNCHANGED <<files, currentFile, fileRanges, selectedRangeId>>]_vars

\* C12: the id a File object carries, once assigned, is the id it carries in
\* every later state in which the object is still referred to
C12_IdAssignedOnce ==
    [][\A f \in DOMAIN heap :
          (heap[f].id # NoId /\ heap'[f].id # NoId)
              => heap'[f].id = heap[f].id]_vars

\* C13: the ids of the rows of the range editor are pairwise distinct
C13_RangeIdsDistinct ==
    \A i, j \in DOMAIN ranges : (i # j) => ranges[i].id # ranges[j].id

\* C14: handleRemoveRange clears selectedRangeId and the preview range
\* (the current file's entry of fileRanges) when the removed row is the
\* selected one, the row the user clicked last, and leaves both as they were
\* when it is another row
C14_RemoveClearsOwnSelection ==
    [][ev'.op = "removeRange" =>
         IF ev'.wasCurrent
         THEN /\ selectedRangeId' = NoRange
              /\ heap[currentFile].id \notin DOMAIN fileRanges'
         ELSE UNCHANGED <<selectedRangeId, fileRanges>>]_vars

RECURSIVE DecimalValue(_)
\* the number a string of digits denotes
DecimalValue(ds) ==
    IF ds = <<>> THEN 0
    ELSE 10 * DecimalValue(SubSeq(ds, 1, Len(ds) - 1)) + DigitVal(ds[Len(ds)])

\* the integer a text starts with (an optional sign, then digits up to the
\* first character that is no digit), the reading parseInt gives; `none'
\* when the text starts with no integer
LeadingInteger(t) ==
    LET neg  == t # <<>> /\ t[1] = "-"
        body == IF neg THEN SubSeq(t, 2, Len(t)) ELSE t
        k    == CHOOSE n \in 0..Len(body) :
                    /\ \A i \in 1..n : IsDigit(body[i])
                    /\ n = Len(body) \/ ~IsDigit(body[n + 1])
        v    == DecimalValue(SubSeq(body, 1, k))
    IN  [none |-> k = 0, val |-> IF neg THEN 0 - v ELSE v]

\* C15: isRangeValid is true exactly when start and end both parse as
\* integers and 1 <= start <= end <= page count, for every text in the two
\* fields (empty, 0, signed, with a decimal point) and every page count
C15_IsValid ==
    \A i \in DOMAIN ranges, n \in ValidatePages :
        LET s == LeadingInteger(ranges[i].start)
            e == LeadingInteger(ranges[i].end)
        IN  isRangeValid(ranges[i], n)
            <=> (/\ ~s.none /\ ~e.none
                 /\ 1 <= s.val /\ s.val <= e.val /\ e.val <= n)

\* C15 witness: "0" is typed as start with an end within the page count,
\* and the row is not valid
C15_Witness ==
    /\ ranges # <<>>
    /\ ranges[1].start = <<"0">>
    /\ ranges[1].end = <<"5">>
    /\ Len(heap[currentFile].pages) = 10
    /\ ~isRangeValid(ranges[1], 10)
    /\ selectedRangeId = ranges[1].id
    /\ heap[currentFile].id \notin DOMAIN fileRanges

\* the kind of a message of getRangeError
KindOf(m) ==
    CASE m.text = "Please enter valid numbers" -> "non-numeric"
      [] m.text = "Page numbers must be greater than 0" -> "out-of-bounds"
      [] m.text = "Page numbers must not exceed" -> "out-of-bounds"
      [] m.text = "Start page must not be greater than end page" -> "inverted"
      [] OTHER -> "none"

\* the kind the rules ask for: the first that applies, in the order
\* non-numeric, out of bounds (either bound), inverted; else none
KindAsked(r, n) ==
    LET s == LeadingInteger(r.start)
        e == LeadingInteger(r.end)
    IN  IF s.none \/ e.none THEN "non-numeric"
        ELSE IF s.val < 1 \/ e.val < 1 \/ s.val > n \/ e.val > n
        THEN "out-of-bounds"
        ELSE IF s.val > e.val THEN "inverted"
        ELSE "none"

\* C16: getRangeError gives the one message of the first rule that applies,
\* and none for a valid row; for 10 pages the rows {0, 5}, {5, 20} and
\* {8, 3} get three different messages
C16_DescribeError ==
    /\ \A i \in DOMAIN ranges, n \in ValidatePages :
          LET m == getRangeError(ranges[i], n)
          IN  /\ KindOf(m) = KindAsked(ranges[i], n)
              /\ (m = NoMessage) <=> isRangeValid(ranges[i], n)
    /\ LET a == getRangeError(Row(1, <<"0">>, <<"5">>), 10)
           b == getRangeError(Row(1, <<"5">>, <<"2", "0">>), 10)
           c == getRangeError(Row(1, <<"8">>, <<"3">>), 10)
       IN  /\ a # NoMessage /\ b # NoMessage /\ c # NoMessage
           /\ a # b /\ a # c /\ b # c

\* C16 witness: for 10 pages the row {5, 20} is typed and gets the message
\* of the upper bound; it is both out of bounds and nothing else
C16_Witness ==
    /\ ranges # <<>>
    /\ ranges[1].start = <<"5">>
    /\ ranges[1].end = <<"2", "0">>
    /\ Len(heap[currentFile].pages) = 10
    /\ getRangeError(ranges[1], 10)
           = Message("Page numbers must not exceed", 10)

\* a row is valid for n pages: both texts start with an integer and
\* 1 <= start <= end <= n
RowValid(r, n) ==
    LET s == LeadingInteger(r.start)
        e == LeadingInteger(r.end)
    IN  /\ ~s.none /\ ~e.none
        /\ 1 <= s.val /\ s.val <= e.val /\ e.val <= n

RECURSIVE Extracted(_, _)
\* what an extract of the rows rs from the file src is to produce: for each
\* valid row, in the order of the rows, a file named after src and the
\* row's bounds that holds the pages start..end of src
Extracted(rs, src) ==
    IF rs = <<>> THEN <<>>
    ELSE (IF RowValid(Head(rs), Len(src.pages))
          THEN LET s == LeadingInteger(Head(rs).start).val
                   e == LeadingInteger(Head(rs).end).val
               IN  <<[name  |-> PagesName(src.name, s, e),
                      pages |-> SubSeq(src.pages, s, e)]>>
          ELSE <<>>) \o Extracted(Tail(rs), src)

C18_IndicesInBounds ==
    [][\A t \in pending :
          t.kind = "extract" /\ t \notin pending' =>
             \A j \in DOMAIN t.valid :
                \A n \in Range(pageIndices(t.valid[j][1] - 1,
                                            t.valid[j][2] - 1)) :
                   n \in 0..(Len(heap[t.obj].pages) - 1)]_vars


\* C19: an extract request on a range set with no valid row (no rows, blank
\* rows, rows that are no numbers, out of bounds or inverted) produces no
\* file, starts nothing, and leaves the workspace, the current file, the
\* rows and the selection as they were
C19_ExtractNothing ==
    [][(/\ ev'.op = "extract"
        /\ \A i \in DOMAIN ranges :
              ~RowValid(ranges[i], Len(heap[currentFile].pages)))
       => /\ Len(heap') = Len(heap)
          /\ \A f \in Range(files) \cup {currentFile} : heap'[f] = heap[f]
          /\ pending' = pending
          /\ UNCHANGED <<files, currentFile, fileRanges, ranges,
                         selectedFile, selectedRangeId, isLoadingUrl,
                         pageCount>>]_vars
\* the request was made on three rows: a blank one, an inverted one and one
\* past the last page; nothing is in flight after it
C19_Witness ==
    /\ ev.op = "extract" /\ pending = {}
    /\ Len(ranges) = 3
    /\ ranges[1].start = <<>>
    /\ ranges[2].start = ToText(2) /\ ranges[2].end = ToText(1)
    /\ ranges[3].end = ToText(MaxPages + 1)
    /\ Len(heap) = 1


RECURSIVE Concat(_, _)
\* the pages of the files fs, one file after the other
Concat(h, fs) ==
    IF fs = <<>> THEN <<>> ELSE h[Head(fs)].pages \o Concat(h, Tail(fs))

RECURSIVE SumPages(_, _)
SumPages(h, fs) ==
    IF fs = <<>> THEN 0 ELSE Len(h[Head(fs)].pages) + SumPages(h, Tail(fs))

\* C20: when a merge of the workspace D1..Dn completes, the file it built
\* is named merged.pdf, has as many pages as D1..Dn together, and its pages
\* are those of D1 in order, then those of D2, and so on, in the order the
\* workspace had when the merge was requested
C20_MergeKeepsOrder ==
    [][\A t \in pending :
          t.kind = "merge" /\ t \notin pending' /\ Len(heap') > Len(heap) =>
             LET merged == heap'[Len(heap) + 1]
             IN  /\ Len(heap') = Len(heap) + 1
                 /\ merged.name = MergedName
                 /\ Len(merged.pages) = SumPages(heap, t.snap)
                 /\ merged.pages = Concat(heap, t.snap)]_vars
\* a merge of two documents with different pages has been built
C20_Witness ==
    \E f \in DOMAIN heap :
       /\ heap[f].name = MergedName
       /\ Len(files) >= 2
       /\ heap[files[1]].pages # heap[files[2]].pages
       /\ Len(heap[files[1]].pages) = MaxPages
       /\ heap[f].pages = heap[files[1]].pages \o heap[files[2]].pages


\* C21: when the container's handling of a merged file completes, the
\* merged file is appended to `files' after the files that were there,
\* which keep their order, and it is the current file
C21_MergeAppendsAndActivates ==
    [][ev'.op = "addFile" /\ heap'[ev'.obj].name = MergedName =>
          /\ files' = Append(files, ev'.obj)
          /\ currentFile' = ev'.obj]_vars


\* C22: when the container has finished taking in the files of an extract
\* (files of pairwise different names, so none is a duplicate), `files'
\* ends with them in the order handleExtractRanges built them, after the
\* files that were there, and the first of them is the current file
C22_ExtractAppendsInOrder ==
    [][\A t \in pending :
          (/\ t.kind = "xadd" /\ t \notin pending'
           /\ ~\E u \in pending' : u.kind \in {"xid", "xadd"}
           /\ \A a, b \in DOMAIN t.snap :
                 a # b => heap[t.snap[a]].name # heap[t.snap[b]].name)
          => /\ Len(files') = Len(files) + 1
             /\ SubSeq(files', Len(files') - Len(t.snap) + 1, Len(files'))
                  = t.snap
             /\ currentFile' = t.snap[1]]_vars


\* the engine fails in the handler suspended as t: a source of the merge
\* does not parse, or the document of the extract does not parse or has
\* fewer pages than a range of the batch asks for
EngineFails(t) ==
    \/ /\ t.kind = "merge"
       /\ \E f \in Range(t.snap) : Len(heap[f].pages) = 0
    \/ /\ t.kind = "extract"
       /\ \E j \in DOMAIN t.valid : t.valid[j][2] > Len(heap[t.obj].pages)

\* C23: when the engine fails in an extract or a merge, the handler ends
\* without a result: no file is built into the workspace (not for the
\* ranges before the failing one either), nothing more is started, and
\* files, the current file, the range map, the rows and the selected range
\* are what they were
C23_FailureAbortsBatch ==
    [][\A t \in pending :
          EngineFails(t) /\ t \notin pending' =>
             /\ Len(heap') = Len(heap)
             /\ pending' = pending \ {t}
             /\ UNCHANGED <<files, currentFile, fileRanges, ranges,
                            selectedFile, selectedRangeId, pageCount>>]_vars
\* an extract of two rows has failed at the second: the first, pages 1-1,
\* is within the one page of the document, the second is not
C23_Witness ==
    /\ ev.op = "extractFailed"
    /\ Len(heap[ev.obj].pages) = 1
    /\ Len(ranges) = 2
    /\ ranges[1].start = ToText(1) /\ ranges[1].end = ToText(1)
    /\ ranges[2].start = ToText(1) /\ ranges[2].end = ToText(2)
    /\ files = <<1, 2, 3>> /\ currentFile = 2


\* a file whose bytes do not parse
Unparseable(h, f) == Len(h[f].pages) = 0

\* addFile of an unparseable file gives it page count 0 and appends it
\* (unless a file of its name and size is there)
UnparseableAdded ==
    [][ev'.op = "addFile" /\ Unparseable(heap', ev'.obj) =>
          /\ heap'[ev'.obj].totalPages = 0
          /\ \/ ev'.obj \in Range(files')
             \/ \E g \in Range(files) :
                   /\ heap[g].name = heap'[ev'.obj].name
                   /\ heap[g].size = heap'[ev'.obj].size]_vars

\* an unparseable file leaves `files' only by its own delete
UnparseableStays ==
    [][\A f \in Range(files) :
          Unparseable(heap, f) /\ f \notin Range(files') =>
             ev'.op = "delete" /\ ev'.obj = f]_vars

\* C24: a file the engine cannot parse gets page count 0 and is appended,
\* it leaves the workspace only when it is deleted, and selecting it does
\* not fail
C24_UnparseableIsDegraded ==
    /\ UnparseableAdded
    /\ UnparseableStays
    /\ [][ev'.op # "selectFailed"]_vars


\* |a - b|
Distance(a, b) == IF a >= b THEN a - b ELSE b - a

\* C25: with no active range a page that is laid out is in the window,
\* and so rendered with full content, if and only if it lies within
\* bufferSize pages of the page the Viewer shows; a page farther away gets
\* the placeholder
C25_BufferNeighbourhood ==
    (rendered # NoRender /\ selectedRange = NullRange) =>
       (rendered.inWindow <=>
          Distance(rendered.pageIndex + 1, viewerPage + 1) <= bufferSize)


\* buffer sizes the window rule is checked for, the one of the code included
BufferSizes == {0, 1, 5, bufferSize}

\* C26: under an active range [s, e] a page whose number is outside [s, e]
\* is never classified as in the window, whatever its index and whatever
\* the buffer size, also when it is within the buffer of the page shown;
\* and the render range handed to the Viewer is [s - 1, e - 1]
C26_RangeIsHardClip ==
    (rendered # NoRender /\ selectedRange # NullRange) =>
       LET s == selectedRange.start
           e == selectedRange.end
       IN  /\ rendered.pageIndex + 1 \notin s..e => ~rendered.inWindow
           /\ rendered.range = <<s - 1, e - 1>>
           /\ \A B \in BufferSizes, i \in ViewerPages :
                 i + 1 \notin s..e => ~InWindow(i, selectedRange, B)
\* page 9 has been laid out under the range [10, 20] while the Viewer shows
\* page 10: it is next to the page shown and outside the range
C26_Witness ==
    /\ rendered.pageIndex = 8 /\ ~rendered.inWindow
    /\ selectedRange = [start |-> 10, end |-> 20]
    /\ viewerPage = 9

\* the interval [max(p - B, s), min(p + B, e)]
ClampedWindow(p, s, e, B) ==
    [start |-> IF p - B >= s THEN p - B ELSE s,
     end   |-> IF p + B <= e THEN p + B ELSE e]

C28_NavigationClamp ==
    [][(selectedRange' # NullRange) =>
          LET s == selectedRange'.start
              e == selectedRange'.end
              shown == viewerPage' + 1
          IN  /\ ev'.op \in {"pageChange", "rangeChange"} =>
                    /\ shown < s => jump' = s - 1
                    /\ shown > e => jump' = e - 1
              /\ ev'.op = "jumpLands" => shown \in s..e]_vars

\* C29: a page change or a change of the range that leaves the page shown
\* within the active range [s, e], bounds included, makes no jumpToPage
\* call; without an active range no call is ever made
C29_NoJumpInside ==
    [][/\ (/\ ev'.op \in {"pageChange", "rangeChange"}
           /\ selectedRange' # NullRange
           /\ viewerPage' + 1 \in selectedRange'.start..selectedRange'.end)
          => jump' = NoJump
       /\ selectedRange' = NullRange => jump' = NoJump]_vars

\* C30: every object URL but the last created has been revoked exactly
\* once (so before the next one was created); the last one has been
\* revoked at most once, is the URL in use while it is live, and has been
\* revoked once the component is unmounted; so at most one is live
C30_UrlDiscipline ==
    \A u \in DOMAIN revoked :
       /\ revoked[u] <= 1
       /\ u < Len(revoked) => revoked[u] = 1
       /\ revoked[u] = 0 => mounted /\ cleanup = u /\ fileUrl = u
       /\ ~mounted => revoked[u] = 1
\* three URLs have been created, over file changes and an unmount, and the
\* component is unmounted
C30_Witness ==
    /\ Len(revoked) = MaxUrls /\ ~mounted
    /\ \A u \in DOMAIN revoked : revoked[u] = 1


\* C31: when addFile appends a file while no file is current, that file is
\* the current one afterwards, whatever shouldSetCurrent was
C31_AddToEmptyActivates ==
    [][(/\ ev'.op = "addFile"
        /\ currentFile = NoFile
        /\ Len(files') = Len(files) + 1)
          => currentFile' = ev'.obj]_vars


\* the part of handleExtract still to run for the file of task t
ExtractPart(t) == t.kind \in {"xid", "xadd"}

\* C32: no handler leaves a state in which part of one extract result is in
\* `files' while the rest is still to be added, and the step that adds the
\* last file of a result makes the first file of the result the current one
C32_ExtractInsertionAtomic ==
    [][/\ \A t \in pending' :
             ExtractPart(t) =>
                \A j \in DOMAIN t.snap : t.snap[j] \notin Range(files')
       /\ \A t \in pending \ pending' :
             (/\ t.kind = "xadd"
              /\ ~\E u \in pending' : ExtractPart(u) /\ u.batch = t.batch)
                => currentFile' = t.snap[1]]_vars


\* C33: the range handed to the preview is none, or a range [start, end]
\* of the current file with 1 <= start <= end <= totalPages
C33_PreviewRangeValid ==
    LET r == selectedRangeProp(heap, currentFile, fileRanges)
    IN  r # NullRange =>
           /\ 1 <= r.start
           /\ r.start <= r.end
           /\ r.end <= heap[currentFile].totalPages

\* C34: when the engine fails in an extract or a merge, the handler that
\* ends raises exactly one error notification
C34_FailureNotifiedOnce ==
    [][\A t \in pending :
          EngineFails(t) /\ t \notin pending' => Len(ev'.toasts) = 1]_vars


\* C35: after an edit of a field in the auto-correcting editor, with a
\* page count N >= 1, every field of the edited row that is not empty holds
\* an integer of 1..N, and start <= end when neither is empty
C35_AutoCorrectKeepsRowValid ==
    [][(ev'.op = "rangeEdit" /\ pageCount >= 1) =>
          LET r == ranges'[ev'.at + 1]
              s == ParseInt(r.start)
              e == ParseInt(r.end)
          IN  /\ r.start # <<>> => ~s.nan /\ s.val \in 1..pageCount
              /\ r.end # <<>> => ~e.nan /\ e.val \in 1..pageCount
              /\ (r.start # <<>> /\ r.end # <<>>) => s.val <= e.val]_vars


\* C36: getRangeError returns no message exactly for the rows isRangeValid
\* accepts, for every text in the two fields and every page count, the one
\* of the loaded document included
C36_ErrorIffInvalid ==
    \A i \in DOMAIN ranges, n \in ValidatePages \cup {pageCount} :
        (getRangeError(ranges[i], n) = NoMessage)
           <=> isRangeValid(ranges[i], n)
\* for 10 pages the row {8, 3} is typed: it is not valid and the message of
\* the inverted bounds is there for it; for 3 pages the same row gets the
\* message of the upper bound
C36_Witness ==
    /\ ranges # <<>>
    /\ ranges[1].start = <<"8">>
    /\ ranges[1].end = <<"3">>
    /\ pageCount = 10
    /\ ~isRangeValid(ranges[1], pageCount)
    /\ getRangeError(ranges[1], pageCount)
           = Message("Start page must not be greater than end page", 0)
    /\ getRangeError(ranges[1], 3) = Message("Page numbers must not exceed", 3)


\* C37: under the container that keeps pageCount, when no page count is
\* being computed any more, pageCount is the page count of the current file
C37_PageCountSettles ==
    (currentFile # NoFile
       /\ ~\E t \in pending : t.kind \in {"count", "xcount", "mcount"})
      => pageCount = calculatePageCount(heap, currentFile)


\* C38: a file that enters `files' in a step is one that was never there:
\* a File object the step creates or the one a suspended addFile holds; so
\* no completion of an upload, import, extract or merge puts a deleted file
\* back.  And the completion of a URL import keeps every file of the list
C38_DeletedStaysDeleted ==
    [][/\ \A f \in Range(files') \ Range(files) :
             f > Len(heap) \/ \E t \in pending : t.obj = f
       /\ (\E t \in pending \ pending' : t.kind = "url")
             => Range(files) \subseteq Range(files')]_vars


\* the file of fs that is k places after f, around the end of the list
Around(fs, f, k) ==
    fs[((Position(fs, f) - 1 + k + Len(fs)) % Len(fs)) + 1]

RECURSIVE PressNext(_, _, _)
\* the file selected after n presses of `next', from the current file cf
PressNext(fs, cf, n) ==
    IF n = 0 THEN cf ELSE PressNext(fs, keyTarget(fs, cf, FALSE), n - 1)

\* C39: an arrow key acts only when there is a file; it leaves `files' as
\* it is and selects a file of the list; when the current file is in the
\* list, `next' selects the one after it and `previous' the one before it,
\* around the ends, and as many presses of `next' as there are files lead
\* back to the current file
C39_KeyNavigationCycles ==
    [][ev'.op = "keyNav" =>
          /\ Len(files) > 0
          /\ files' = files
          /\ currentFile' \in Range(files)
          /\ currentFile \in Range(files) =>
                /\ keyTarget(files, currentFile, FALSE)
                      = Around(files, currentFile, 1)
                /\ keyTarget(files, currentFile, TRUE)
                      = Around(files, currentFile, 0 - 1)
                /\ currentFile' \in {Around(files, currentFile, 1),
                                     Around(files, currentFile, 0 - 1)}
                /\ PressNext(files, currentFile, Len(files)) = currentFile]_vars
\* a key press has moved the selection to the first of three files
C39_Witness ==
    /\ ev.op = "keyNav" /\ ~ev.wasCurrent
    /\ Len(files) = 3
    /\ ev.obj = files[1] /\ currentFile = files[1]


\* ------------------------------------------------------- type invariant
TypeOK ==
    /\ Len(heap) <= MaxObjs
    /\ Range(files) \subseteq DOMAIN heap
    /\ currentFile \in {NoFile} \cup DOMAIN heap
    /\ selectedFile = currentFile
    /\ Len(ranges) <= MaxRanges

====
